---- MODULE Spec2Model ----
(***************************************************************************)
(* MetroTransitClient (src/src/index.ts): seven async operations that each *)
(* issue one GET through the shared axios instance _axios, await it, and   *)
(* either return the decoded data or rethrow through the catch block.      *)
(*                                                                         *)
(* A call is modelled in two steps, as an async function runs: the part up *)
(* to the await (the request is put on the wire), and the continuation     *)
(* after the promise of _axios.get has settled (return data / catch).      *)
(* Between the two the upstream, which is the environment, answers.        *)
(***************************************************************************)
EXTENDS Naturals, Sequences, FiniteSets, TLC

\* Number of invocations that may be outstanding at once.
MaxCalls == 2

Calls == 1 .. MaxCalls

(***************************************************************************)
(* JavaScript values that reach the client: response.data and the argument *)
(* of new Error(...).  One record shape, tagged by t.                      *)
(***************************************************************************)
Undefined == [t |-> "undefined", s |-> "", a |-> <<>>]
Str(s) == [t |-> "string", s |-> s, a |-> <<>>]
Obj(s) == [t |-> "object", s |-> s, a |-> <<>>]
Arr(a) == [t |-> "array", s |-> "", a |-> a]

\* export interface TextValuePair { Text: string; Value: string }
TextValuePair(text, value) == [Text |-> text, Value |-> value]

\* export enum DirectionValue { South = "1", East = "2", West = "3", North = "4" }
DirectionValue == [South |-> "1", East |-> "2", West |-> "3", North |-> "4"]

(***************************************************************************)
(* Inputs of the operations.                                               *)
(***************************************************************************)
RouteArgs == {"901", "0"}
StopArgs == {"17940", "TPB"}
DirectionArgs == {DirectionValue.South, DirectionValue.North}

(***************************************************************************)
(* The shared transport: axios.create({ baseURL, headers }).               *)
(***************************************************************************)
_axios ==
    [baseURL |-> "http://svc.metrotransit.org/nextrip",
     headers |-> ("Content-Type" :> "application/json"
                  @@ "Accepts" :> "application/json")]

\* _axios.get(path): the request the instance puts on the wire.
Get(cfg, path) ==
    [method |-> "GET", baseURL |-> cfg.baseURL, path |-> path,
     headers |-> cfg.headers]

NoRequest == [method |-> "none", baseURL |-> "", path |-> "",
              headers |-> <<>>]

(***************************************************************************)
(* Request paths, as the template literals build them.                     *)
(***************************************************************************)
ProvidersPath == "/Providers"
RoutesPath == "/Routes"
DirectionsPath(route) == "/Directions/" \o route
StopsPathSwapped(route, direction) ==
    "/Stops/" \o direction \o "/" \o route
StopsPath(route, direction) == "/Stops/" \o route \o "/" \o direction
DeparturesPath(stopID) == "/" \o stopID \o "}"
TimepointDeparturesPath(route, direction, stopID) ==
    "/" \o route \o "/" \o direction \o "/" \o stopID \o "}"
VehicleLocationsPath(route) == "/VehicleLocations/" \o route

(***************************************************************************)
(* What the upstream can answer, and what axios makes of it.               *)
(***************************************************************************)
Downtown == TextValuePair("Downtown", "TPB")
Airport == TextValuePair("Airport", "LIND")

\* A response body: its raw text, and its value when the text is JSON.
ArrayBody ==
    [raw |-> "[{\"Text\":\"Downtown\",\"Value\":\"TPB\"},{\"Text\":\"Airport\",\"Value\":\"LIND\"}]",
     isJson |-> TRUE, parsed |-> Arr(<<Downtown, Airport>>)]
TextBody ==
    [raw |-> "service unavailable", isJson |-> FALSE, parsed |-> Undefined]
ObjectBody ==
    [raw |-> "{\"Message\":\"An error has occurred.\"}",
     isJson |-> TRUE, parsed |-> Obj("{\"Message\":\"An error has occurred.\"}")]

\* The answers of the upstream: the documented array on success, a plain-text
\* or a JSON error body on failure.
HttpAnswers ==
    {[status |-> 200, body |-> ArrayBody],
     [status |-> 500, body |-> TextBody],
     [status |-> 500, body |-> ObjectBody]}

NoBody == [raw |-> "", isJson |-> FALSE, parsed |-> Undefined]

\* response.data: the instance is created without responseType or
\* transformResponse, so a body that parses as JSON arrives parsed and any
\* other body arrives as its text.
AxiosDecode(body) == IF body.isJson THEN body.parsed ELSE Str(body.raw)

NoResponse == [present |-> FALSE, status |-> 0, data |-> Undefined]
AxiosResponse(status, body) ==
    [present |-> TRUE, status |-> status, data |-> AxiosDecode(body)]

NoError == [id |-> "none", isAxiosError |-> FALSE, message |-> "",
            response |-> NoResponse]

\* An AxiosError with a response (non-2xx status).
StatusError(status, body) ==
    [id |-> "AxiosError", isAxiosError |-> TRUE,
     message |-> "Request failed with status code " \o ToString(status),
     response |-> AxiosResponse(status, body)]

\* An AxiosError without a response (DNS, connection refused, timeout).
NetworkMessages == {"connect ECONNREFUSED"}
NetworkError(message) ==
    [id |-> "AxiosError", isAxiosError |-> TRUE, message |-> message,
     response |-> NoResponse]

\* An error that is not an AxiosError.
ProgrammingError ==
    [id |-> "TypeError", isAxiosError |-> FALSE,
     message |-> "Cannot read properties of undefined",
     response |-> NoResponse]

Pending == [state |-> "pending", response |-> NoResponse, error |-> NoError]
Fulfilled(r) == [state |-> "fulfilled", response |-> r, error |-> NoError]
Rejected(e) == [state |-> "rejected", response |-> NoResponse, error |-> e]

\* How the promise of _axios.get settles on an HTTP answer: a 2xx status
\* fulfils it, any other status rejects it with an AxiosError.
SettleOnAnswer(status, body) ==
    IF status >= 200 /\ status < 300
    THEN Fulfilled(AxiosResponse(status, body))
    ELSE Rejected(StatusError(status, body))

(***************************************************************************)
(* new Error(message)                                                      *)
(***************************************************************************)
RECURSIVE JoinObjects(_)
JoinObjects(n) ==
    IF n = 0 THEN ""
    ELSE IF n = 1 THEN "[object Object]"
    ELSE "[object Object]," \o JoinObjects(n - 1)

\* String(v) of a JavaScript value.
JsString(v) ==
    CASE v.t = "string" -> v.s
      [] v.t = "object" -> "[object Object]"
      [] v.t = "array" -> JoinObjects(Len(v.a))
      [] OTHER -> "undefined"

\* new Error(m): the message is String(m), and is empty when m is undefined.
NewError(m) ==
    [id |-> "Error", isAxiosError |-> FALSE,
     message |-> IF m.t = "undefined" THEN "" ELSE JsString(m),
     response |-> NoResponse]

\* err.response?.data
OptionalData(err) ==
    IF err.response.present THEN err.response.data ELSE Undefined

\* axios.isAxiosError(err)
isAxiosError(err) == err.isAxiosError

CatchWrapAll(err) ==
    IF isAxiosError(err) THEN NewError(OptionalData(err))
    ELSE NewError(Str(err.message))

\* catch (err) { if (axios.isAxiosError(err)) throw new Error(...); throw err; }
Catch(err) ==
    IF isAxiosError(err) THEN NewError(OptionalData(err)) ELSE err

ReturnFiltered(response) ==
    IF response.data.t = "array" /\ response.data.a # <<>>
    THEN Arr(Tail(response.data.a))
    ELSE response.data

\* const { data } = await ...; return data;
ReturnValue(response) == response.data

NoResult == [kind |-> "none", value |-> Undefined, error |-> NoError]
Returned(v) == [kind |-> "returned", value |-> v, error |-> NoError]
Threw(e) == [kind |-> "threw", value |-> Undefined, error |-> e]

VARIABLES config, pc, op, args, wire, attempts, answer, promise, result,
          completions

vars == <<config, pc, op, args, wire, attempts, answer, promise, result,
          completions>>

NoAnswer == [kind |-> "none", status |-> 0, body |-> NoBody]

NoArgs == [route |-> "", direction |-> "", stopID |-> ""]

Init ==
    /\ config = _axios
    /\ pc = [c \in Calls |-> "idle"]
    /\ op = [c \in Calls |-> "none"]
    /\ args = [c \in Calls |-> NoArgs]
    /\ wire = [c \in Calls |-> NoRequest]
    /\ attempts = [c \in Calls |-> 0]
    /\ answer = [c \in Calls |-> NoAnswer]
    /\ promise = [c \in Calls |-> Pending]
    /\ result = [c \in Calls |-> NoResult]
    /\ completions = [c \in Calls |-> 0]

\* The part of an operation up to its await: one _axios.get(path).
Invoke(c, name, a, path) ==
    /\ pc[c] = "idle"
    /\ pc' = [pc EXCEPT ![c] = "awaiting"]
    /\ op' = [op EXCEPT ![c] = name]
    /\ args' = [args EXCEPT ![c] = a]
    /\ wire' = [wire EXCEPT ![c] = Get(config, path)]
    /\ attempts' = [attempts EXCEPT ![c] = @ + 1]
    /\ UNCHANGED <<config, answer, promise, result, completions>>

providers(c) == Invoke(c, "providers", NoArgs, ProvidersPath)

routes(c) == Invoke(c, "routes", NoArgs, RoutesPath)

directions(c, route) ==
    Invoke(c, "directions", [NoArgs EXCEPT !.route = route],
           DirectionsPath(route))

stops(c, route, direction) ==
    Invoke(c, "stops",
           [NoArgs EXCEPT !.route = route, !.direction = direction],
           StopsPath(route, direction))

departures(c, stopID) ==
    Invoke(c, "departures", [NoArgs EXCEPT !.stopID = stopID],
           DeparturesPath(stopID))

timepointDepartures(c, route, direction, stopID) ==
    Invoke(c, "timepointDepartures",
           [route |-> route, direction |-> direction, stopID |-> stopID],
           TimepointDeparturesPath(route, direction, stopID))

vehicleLocations(c, route) ==
    Invoke(c, "vehicleLocations", [NoArgs EXCEPT !.route = route],
           VehicleLocationsPath(route))

(***************************************************************************)
(* The environment: the request of call c leaves the wire and the promise  *)
(* that c awaits settles.                                                  *)
(***************************************************************************)
\* The request is consumed; the parameters, which only the path used, are
\* dead from here on and are dropped from the state.
Settle(c, ans, p) ==
    /\ pc[c] = "awaiting"
    /\ promise[c].state = "pending"
    /\ wire' = [wire EXCEPT ![c] = NoRequest]
    /\ args' = [args EXCEPT ![c] = NoArgs]
    /\ answer' = [answer EXCEPT ![c] = ans]
    /\ promise' = [promise EXCEPT ![c] = p]
    /\ UNCHANGED <<config, pc, op, attempts, result, completions>>

\* The upstream answers with a status and a body.
UpstreamAnswers(c) ==
    \E a \in HttpAnswers :
        Settle(c, [kind |-> "http", status |-> a.status, body |-> a.body],
               SettleOnAnswer(a.status, a.body))

\* No response is received.
NetworkFails(c) ==
    \E m \in NetworkMessages :
        Settle(c, [kind |-> "network", status |-> 0, body |-> NoBody],
               Rejected(NetworkError(m)))

\* The awaited expression throws something that is not an AxiosError.
OtherFailure(c) ==
    Settle(c, [kind |-> "other", status |-> 0, body |-> NoBody],
           Rejected(ProgrammingError))

(***************************************************************************)
(* The continuation of an operation after its await.                       *)
(***************************************************************************)
AwaitedShared(c) ==
    IF promise[1].state # "pending" THEN promise[1] ELSE promise[c]

\* The promise call c awaits: the one its own _axios.get returned.
Awaited(c) == promise[c]

ResumeWithRetry(c) ==
    /\ pc[c] = "awaiting"
    /\ Awaited(c).state # "pending"
    /\ IF Awaited(c).state = "fulfilled"
       THEN /\ result' = [result EXCEPT
                             ![c] = Returned(ReturnValue(Awaited(c).response))]
            /\ pc' = [pc EXCEPT ![c] = "returned"]
            /\ completions' = [completions EXCEPT ![c] = @ + 1]
            /\ UNCHANGED <<wire, attempts, promise>>
       ELSE IF op[c] = "providers" /\ attempts[c] < 2
       THEN /\ wire' = [wire EXCEPT ![c] = Get(config, ProvidersPath)]
            /\ attempts' = [attempts EXCEPT ![c] = @ + 1]
            /\ promise' = [promise EXCEPT ![c] = Pending]
            /\ UNCHANGED <<pc, result, completions>>
       ELSE /\ result' = [result EXCEPT ![c] = Threw(Catch(Awaited(c).error))]
            /\ pc' = [pc EXCEPT ![c] = "threw"]
            /\ completions' = [completions EXCEPT ![c] = @ + 1]
            /\ UNCHANGED <<wire, attempts, promise>>
    /\ UNCHANGED <<config, op, args, answer>>

\* try { const { data } = await ...; return data; } catch (err) { ... }

Resume(c) ==
    /\ pc[c] = "awaiting"
    /\ Awaited(c).state # "pending"
    /\ IF Awaited(c).state = "fulfilled"
       THEN /\ result' = [result EXCEPT
                             ![c] = Returned(ReturnValue(Awaited(c).response))]
            /\ pc' = [pc EXCEPT ![c] = "returned"]
       ELSE /\ result' = [result EXCEPT ![c] = Threw(Catch(Awaited(c).error))]
            /\ pc' = [pc EXCEPT ![c] = "threw"]
    /\ completions' = [completions EXCEPT ![c] = @ + 1]
    /\ UNCHANGED <<config, op, args, wire, attempts, answer, promise>>

Next ==
    \E c \in Calls :
        \/ providers(c)
        \/ routes(c)
        \/ \E route \in RouteArgs : directions(c, route)
        \/ \E route \in RouteArgs, direction \in DirectionArgs :
               stops(c, route, direction)
        \/ \E stopID \in StopArgs : departures(c, stopID)
        \/ \E route \in RouteArgs, direction \in DirectionArgs,
                stopID \in StopArgs :
               timepointDepartures(c, route, direction, stopID)
        \/ \E route \in RouteArgs : vehicleLocations(c, route)
        \/ UpstreamAnswers(c)
        \/ NetworkFails(c)
        \/ OtherFailure(c)
        \/ Resume(c)

Spec == Init /\ [][Next]_vars

(***************************************************************************)
(* Properties                                                              *)
(***************************************************************************)
Done(c) == pc[c] \in {"returned", "threw"}
OnWire(c) == wire[c].method = "GET"

\* C1: when the exchange fails and a response body was received, the
\* operation fails with an error whose message equals that raw body.
C1_MessageIsRawBody ==
    \A c \in Calls :
        (Done(c) /\ answer[c].kind = "http" /\ answer[c].status = 500)
            => /\ result[c].kind = "threw"
               /\ result[c].error.message = answer[c].body.raw

\* C2: when no response was received, the operation fails with an error
\* whose message is the transport error's own message, and is not empty.
C2_MessageIsTransportMessage ==
    \A c \in Calls :
        (Done(c) /\ answer[c].kind = "network")
            => /\ result[c].kind = "threw"
               /\ result[c].error.message = promise[c].error.message
               /\ result[c].error.message # ""

\* C3: getStopDepartures(stopID) requests exactly "/" followed by stopID.
C3_DeparturesPath ==
    \A c \in Calls :
        (OnWire(c) /\ op[c] = "departures")
            => wire[c].path = "/" \o args[c].stopID

\* C4: getRouteTimepointDepartures(route, direction, stopID) requests exactly
\* "/" route "/" direction "/" stopID.
C4_TimepointDeparturesPath ==
    \A c \in Calls :
        (OnWire(c) /\ op[c] = "timepointDepartures")
            => wire[c].path = "/" \o args[c].route \o "/"
                                  \o args[c].direction \o "/"
                                  \o args[c].stopID

\* C5: the five listing operations request the documented template with
\* the arguments substituted verbatim; stops("901", "1") requests
\* /Stops/901/1 and vehicleLocations("0") requests /VehicleLocations/0.
C5_ListingPaths ==
    \A c \in Calls :
        OnWire(c) =>
            /\ op[c] = "providers" => wire[c].path = "/Providers"
            /\ op[c] = "routes" => wire[c].path = "/Routes"
            /\ op[c] = "directions"
                  => wire[c].path = "/Directions/" \o args[c].route
            /\ op[c] = "stops"
                  => wire[c].path = "/Stops/" \o args[c].route \o "/"
                                              \o args[c].direction
            /\ op[c] = "vehicleLocations"
                  => wire[c].path = "/VehicleLocations/" \o args[c].route
            /\ (op[c] = "stops" /\ args[c].route = "901"
                                /\ args[c].direction = "1")
                  => wire[c].path = "/Stops/901/1"
            /\ (op[c] = "vehicleLocations" /\ args[c].route = "0")
                  => wire[c].path = "/VehicleLocations/0"

C5_Witness ==
    /\ \E c \in Calls : OnWire(c) /\ wire[c].path = "/Stops/901/1"
    /\ \E c \in Calls : OnWire(c) /\ wire[c].path = "/VehicleLocations/0"

\* C6: every invocation issues exactly one request and completes with
\* exactly one outcome, a result or an error; a failure is never retried.
C6_OneRequestOneOutcome ==
    \A c \in Calls :
        /\ pc[c] = "idle" => attempts[c] = 0 /\ completions[c] = 0
        /\ pc[c] = "awaiting" => attempts[c] = 1 /\ completions[c] = 0
        /\ Done(c) => attempts[c] = 1 /\ completions[c] = 1
        /\ Done(c) <=> result[c].kind \in {"returned", "threw"}
        /\ pc[c] = "returned" <=> result[c].kind = "returned"

C6_Witness ==
    \E c \in Calls :
        /\ pc[c] = "threw"
        /\ answer[c].kind = "network"
        /\ attempts[c] = 1
        /\ completions[c] = 1

\* C7: on a successful response the operation returns the decoded body
\* unchanged: same length, same order, same field values.
C7_Passthrough ==
    \A c \in Calls :
        (Done(c) /\ answer[c].kind = "http" /\ answer[c].status = 200)
            => /\ result[c].kind = "returned"
               /\ result[c].value.t = "array"
               /\ Len(result[c].value.a) = Len(answer[c].body.parsed.a)
               /\ \A i \in 1 .. Len(result[c].value.a) :
                      result[c].value.a[i] = answer[c].body.parsed.a[i]

C7_Witness ==
    \E c \in Calls :
        /\ pc[c] = "returned"
        /\ result[c].value.a = <<Downtown, Airport>>

\* C8: an error that is not an axios error reaches the caller unchanged:
\* the same error, not wrapped, its message not replaced.
C8_OtherErrorUnchanged ==
    \A c \in Calls :
        (Done(c) /\ promise[c].state = "rejected"
                 /\ ~promise[c].error.isAxiosError)
            => /\ result[c].kind = "threw"
               /\ result[c].error = promise[c].error

C8_Witness ==
    \E c \in Calls :
        /\ pc[c] = "threw"
        /\ answer[c].kind = "other"
        /\ result[c].error = ProgrammingError

\* The outcome the answer to call c's own request determines.
OwnOutcome(c) ==
    CASE answer[c].kind = "http" /\ answer[c].status = 200 ->
            /\ result[c].kind = "returned"
            /\ result[c].value = answer[c].body.parsed
      [] answer[c].kind = "http" /\ answer[c].status # 200 ->
            /\ result[c].kind = "threw"
            /\ result[c].error.id = "Error"
            /\ answer[c].body = TextBody
                  => result[c].error.message = "service unavailable"
            /\ answer[c].body = ObjectBody
                  => result[c].error.message = "[object Object]"
      [] answer[c].kind = "network" ->
            /\ result[c].kind = "threw"
            /\ result[c].error.id = "Error"
      [] answer[c].kind = "other" ->
            /\ result[c].kind = "threw"
            /\ result[c].error.id = "TypeError"
      [] OTHER -> FALSE

\* C9: with several operations outstanding at once, each call completes
\* with the outcome of its own request and never another call's, and the
\* shared configuration is never changed.
C9_NoCrossContamination ==
    /\ config = _axios
    /\ \A c \in Calls : Done(c) => OwnOutcome(c)
    /\ \A c \in Calls : ~Done(c) => result[c] = NoResult

C9_Witness ==
    \E c, d \in Calls :
        /\ c # d
        /\ op[c] = "providers" /\ op[d] = "routes"
        /\ pc[c] = "returned" /\ pc[d] = "threw"
        /\ config = _axios

\* C10: every request carries the headers Content-Type and Accept, both
\* application/json, and goes to the one fixed base URL.
C10_Headers ==
    \A c \in Calls :
        OnWire(c) =>
            /\ wire[c].baseURL = "http://svc.metrotransit.org/nextrip"
            /\ "Content-Type" \in DOMAIN wire[c].headers
            /\ wire[c].headers["Content-Type"] = "application/json"
            /\ "Accept" \in DOMAIN wire[c].headers
            /\ wire[c].headers["Accept"] = "application/json"
====
